---- MODULE Spec2Model ----
\* Invoice management server: the in-memory invoice store, the upload handler,
\* the processing simulator (two one-shot timers per invoice) and the list /
\* get-by-id queries of the express server.
\*
\* Strings that the code inspects character by character (file names, client
\* names, the search text, the page and limit parameters) are sequences of
\* UTF-16 code units; strings that are only compared for equality (status,
\* sortBy, sortOrder, mime types, messages) are TLA+ strings. An optional
\* value (an absent query parameter, an unset optional field) is <<>> and a
\* present one is <<v>>.
EXTENDS Integers, Sequences, FiniteSets, TLC

VARIABLES
    invoices,      \* the Map<string, Invoice>, as the sequence of its values in insertion order
    startTimers,   \* ids with a pending setTimeout(() => simulateProcessing(id), 1000)
    finishTimers,  \* ids with a pending completion setTimeout of simulateProcessing
    uuids,         \* number of invoice ids uuidv4() has handed out
    now,           \* the clock read by new Date()
    engine,        \* which Array.prototype.sort the runtime ships
    request,       \* the last HTTP request received
    response,      \* the response sent for it
    due,           \* the instants the pending timers of one invoice and of its poller are due at
    poller,        \* the client's pollInvoiceStatus for one invoice
    app            \* the client's App: the list it shows, its refresh interval, its fetches in flight

vars == <<invoices, startTimers, finishTimers, uuids, now, engine, request, response,
          due, poller, app>>

-----------------------------------------------------------------------------
\* Bounds of the model

MaxInvoices == 2   \* records the uploads may create in one run
MaxFiles == 2      \* files in one upload request
MaxClock == 1      \* last instant of the clock
MaxStore == 2      \* records in a store drawn for the query engine
MaxInFlight == 2   \* list fetches of the App that wait for their reply

-----------------------------------------------------------------------------
\* Optional values

None == <<>>
Some(v) == <<v>>
IsSet(o) == o # <<>>
Val(o) == o[1]

-----------------------------------------------------------------------------
\* Program constants and helpers

mockClients == <<
    <<65,99,109,101,32,67,111,114,112,111,114,97,116,105,111,110>>,          \* Acme Corporation
    <<84,101,99,104,70,108,111,119,32,83,111,108,117,116,105,111,110,115>>,  \* TechFlow Solutions
    <<71,108,111,98,97,108,32,68,121,110,97,109,105,99,115>>,                \* Global Dynamics
    <<73,110,110,111,118,97,116,101,32,73,110,100,117,115,116,114,105,101,115>>, \* Innovate Industries
    <<78,101,120,116,71,101,110,32,83,121,115,116,101,109,115>>,             \* NextGen Systems
    <<80,114,105,109,101,32,69,110,116,101,114,112,114,105,115,101,115>>,    \* Prime Enterprises
    <<68,105,103,105,116,97,108,32,72,111,114,105,122,111,110,115>>,         \* Digital Horizons
    <<83,116,114,97,116,101,103,105,99,32,80,97,114,116,110,101,114,115>>,   \* Strategic Partners
    <<70,117,116,117,114,101,32,86,101,110,116,117,114,101,115>>,            \* Future Ventures
    <<69,108,105,116,101,32,83,101,114,118,105,99,101,115>> >>                \* Elite Services

\* limits.fileSize of the multer configuration
fileSizeLimit == 10 * 1024 * 1024

\* A value of Math.random() is r/100 for an r in 0..99.
\* Math.floor(Math.random() * 10000) + 100
generateMockAmount(r) == ((r * 10000) \div 100) + 100

\* mockClients[Math.floor(Math.random() * mockClients.length)]
getRandomClient(r) == mockClients[((r * Len(mockClients)) \div 100) + 1]

\* Math.random() < 0.8
isSuccess(r) == r < 80

Statuses == {"Pending", "Processing", "Processed", "Failed"}
Terminal == {"Processed", "Failed"}

-----------------------------------------------------------------------------
\* The inputs the model draws

PdfMime == "application/pdf"

\* Files a client may put in an upload request
FileInputs == {
    [originalname |-> <<65,46,112,100,102>>, mimetype |-> PdfMime, size |-> 1024],            \* A.pdf
    [originalname |-> <<110,111,116,101,115,46,116,120,116>>, mimetype |-> "text/plain", size |-> 1024], \* notes.txt
    [originalname |-> <<98,105,103,46,112,100,102>>, mimetype |-> PdfMime, size |-> fileSizeLimit + 1] } \* big.pdf

\* Outcomes of Math.random(), in hundredths, at each of its call sites
AmountDraws == {0}         \* amount 100
ClientDraws == {0}         \* Acme Corporation
OutcomeDraws == {0, 80}    \* success and failure

-----------------------------------------------------------------------------
\* The invoice store

\* invoices.get(id): the record as <<r>>, or <<>> when the id is not a key
get(store, id) ==
    IF \E i \in 1..Len(store) : store[i].id = id
    THEN Some(store[CHOOSE i \in 1..Len(store) : store[i].id = id])
    ELSE None

\* Mutant of set: the map is keyed by the file name
set_keyedByFileName(store, invoice) ==
    IF \E i \in 1..Len(store) : store[i].fileName = invoice.fileName
    THEN [i \in 1..Len(store) |->
             IF store[i].fileName = invoice.fileName THEN invoice ELSE store[i]]
    ELSE Append(store, invoice)

\* invoices.set(invoice.id, invoice): a new key is appended, an existing key
\* keeps its place and takes the new value
set(store, invoice) ==
    IF \E i \in 1..Len(store) : store[i].id = invoice.id
    THEN [i \in 1..Len(store) |->
             IF store[i].id = invoice.id THEN invoice ELSE store[i]]
    ELSE Append(store, invoice)

\* The Invoice object literal built by the upload handler
newInvoice(id, file, rClient, rAmount, date, pathId) ==
    [ id |-> id,
      fileName |-> file.originalname,
      fileSize |-> file.size,
      clientName |-> getRandomClient(rClient),
      amount |-> generateMockAmount(rAmount),
      uploadDate |-> date,
      status |-> "Pending",
      filePath |-> <<pathId, file.originalname>>,
      processingStartTime |-> None,
      processingEndTime |-> None ]

-----------------------------------------------------------------------------
\* simulateProcessing

\* Mutants of markProcessing: one that completes the record at once, one that
\* sets the status and leaves the start time for later, one that also stamps
\* the upload date
markProcessing_skipsProcessing(invoice, date) ==
    [invoice EXCEPT !.status = "Processed",
                    !.processingStartTime = Some(date)]

markProcessing_statusOnly(invoice, date) ==
    [invoice EXCEPT !.status = "Processing"]

markProcessing_restampsUpload(invoice, date) ==
    [invoice EXCEPT !.status = "Processing",
                    !.processingStartTime = Some(date),
                    !.uploadDate = date]

\* First half of simulateProcessing: the in-place mutation of the record
markProcessing(invoice, date) ==
    [invoice EXCEPT !.status = "Processing",
                    !.processingStartTime = Some(date)]

\* Mutant of markCompleted: the end time is not recorded
markCompleted_noEndTime(invoice, r, date) ==
    [invoice EXCEPT !.status = IF isSuccess(r) THEN "Processed" ELSE "Failed"]

\* Mutant of markCompleted: the start time is stamped again
markCompleted_stampsStartToo(invoice, r, date) ==
    [invoice EXCEPT !.status = IF isSuccess(r) THEN "Processed" ELSE "Failed",
                    !.processingStartTime = Some(date),
                    !.processingEndTime = Some(date)]

\* The completion callback's in-place mutation of the record
markCompleted(invoice, r, date) ==
    [invoice EXCEPT !.status = IF isSuccess(r) THEN "Processed" ELSE "Failed",
                    !.processingEndTime = Some(date)]

\* request and response are the HTTP exchange of the current turn of the event
\* loop; a turn that runs a timer callback, or idles, has none.
noExchange ==
    /\ request' = [kind |-> "none"]
    /\ response' = [kind |-> "none"]

\* Mutant of StartTimer: the completion timer is never set
StartTimer_noCompletionTimer(id) ==
    /\ id \in startTimers
    /\ startTimers' = startTimers \ {id}
    /\ LET found == get(invoices, id) IN
         IF ~IsSet(found)
         THEN UNCHANGED invoices
         ELSE invoices' = set(invoices, markProcessing(Val(found), now))
    /\ noExchange
    /\ UNCHANGED <<finishTimers, uuids, now, engine>>

\* Mutant of StartTimer: the upload handler's timer is an interval
StartTimer_firesAgain(id) ==
    /\ id \in startTimers
    /\ UNCHANGED startTimers
    /\ LET found == get(invoices, id) IN
         IF ~IsSet(found)
         THEN UNCHANGED <<invoices, finishTimers>>
         ELSE /\ invoices' = set(invoices, markProcessing(Val(found), now))
              /\ finishTimers' = finishTimers \cup {id}
    /\ noExchange
    /\ UNCHANGED <<uuids, now, engine>>

\* The timer set by the upload handler fires: simulateProcessing(id)
StartTimer(id) ==
    /\ id \in startTimers
    /\ startTimers' = startTimers \ {id}
    /\ LET found == get(invoices, id) IN
         IF ~IsSet(found)
         THEN UNCHANGED <<invoices, finishTimers>>
         ELSE /\ invoices' = set(invoices, markProcessing(Val(found), now))
              /\ finishTimers' = finishTimers \cup {id}
    /\ noExchange
    /\ UNCHANGED <<uuids, now, engine>>

\* Mutant of FinishTimer: the callback completes every record that is Processing
FinishTimer_completesEveryProcessing(id) ==
    /\ id \in finishTimers
    /\ finishTimers' = finishTimers \ {id}
    /\ \E r \in OutcomeDraws :
         invoices' = [i \in 1..Len(invoices) |->
                         IF invoices[i].status = "Processing"
                         THEN markCompleted(invoices[i], r, now)
                         ELSE invoices[i]]
    /\ noExchange
    /\ UNCHANGED <<startTimers, uuids, now, engine>>

\* The timer set by simulateProcessing fires
FinishTimer(id) ==
    /\ id \in finishTimers
    /\ finishTimers' = finishTimers \ {id}
    /\ LET found == get(invoices, id) IN
         IF ~IsSet(found)
         THEN UNCHANGED invoices
         ELSE \E r \in OutcomeDraws :
                invoices' = set(invoices, markCompleted(Val(found), r, now))
    /\ noExchange
    /\ UNCHANGED <<startTimers, uuids, now, engine>>

\* Time passes between two events of the event loop
Tick ==
    /\ now < MaxClock
    /\ now' = now + 1
    /\ noExchange
    /\ UNCHANGED <<invoices, startTimers, finishTimers, uuids, engine>>

-----------------------------------------------------------------------------
\* POST /api/invoices/upload

\* upload.array('invoices'): multer takes the files in order, asks fileFilter
\* about each and enforces limits.fileSize while storing it; the first file
\* that fails ends the request with that error. <<>> when every file passes.
multerError(files) ==
    LET bad == {i \in 1..Len(files) :
                   \/ files[i].mimetype # PdfMime
                   \/ files[i].size > fileSizeLimit}
    IN IF bad = {} THEN None
       ELSE LET i == CHOOSE j \in bad : \A k \in bad : j <= k
            IN IF files[i].mimetype # PdfMime
               THEN Some([multer |-> FALSE, code |-> "", message |-> "Only PDF files are allowed"])
               ELSE Some([multer |-> TRUE, code |-> "LIMIT_FILE_SIZE", message |-> "File too large"])

\* Mutant of errorMiddleware: the file filter's error is not recognised
errorMiddleware_filterErrorIsAFault(error) ==
    IF error.multer /\ error.code = "LIMIT_FILE_SIZE"
    THEN [kind |-> "upload", status |-> 400,
          body |-> [error |-> "File size too large. Maximum size is 10MB."]]
    ELSE [kind |-> "upload", status |-> 500,
          body |-> [error |-> "Internal server error"]]

\* The error handling middleware
errorMiddleware(error) ==
    IF error.multer /\ error.code = "LIMIT_FILE_SIZE"
    THEN [kind |-> "upload", status |-> 400,
          body |-> [error |-> "File size too large. Maximum size is 10MB."]]
    ELSE IF error.message = "Only PDF files are allowed"
    THEN [kind |-> "upload", status |-> 400,
          body |-> [error |-> "Only PDF files are allowed"]]
    ELSE [kind |-> "upload", status |-> 500,
          body |-> [error |-> "Internal server error"]]

\* files.forEach(...): file i gets the id, the draws and the date of its turn.
\* The uuidv4() of the route handler hands out base+1, base+2, ... as invoice
\* ids; the uuidv4() of multer's filename callback names the stored file, and
\* only its being the name of that one file is kept (the same ordinal, as a
\* disk name).
createdInvoices(files, base, rClient, rAmount, dates) ==
    [i \in 1..Len(files) |->
        newInvoice(base + i, files[i], rClient[i], rAmount[i], dates[i], base + i)]

RECURSIVE setAll(_, _)
setAll(store, created) ==
    IF created = <<>> THEN store
    ELSE setAll(set(store, Head(created)), Tail(created))

\* The whole request: multer, then the route handler (or the error middleware).
\* A rejected request leaves uuids alone: the ids it used up are never seen again,
\* and uuids only stands for the freshness of the next ones.
Upload(files) ==
    /\ request' = [kind |-> "upload"]
    /\ LET error == multerError(files) IN
         IF IsSet(error)
         THEN /\ response' = errorMiddleware(Val(error))
              /\ UNCHANGED <<invoices, startTimers, uuids, now>>
         ELSE IF Len(files) = 0
         THEN /\ response' = [kind |-> "upload", status |-> 400,
                              body |-> [error |-> "No files uploaded"]]
              /\ UNCHANGED <<invoices, startTimers, uuids, now>>
         ELSE /\ Len(invoices) + Len(files) <= MaxInvoices
              /\ \E rClient \in [1..Len(files) -> ClientDraws],
                    rAmount \in [1..Len(files) -> AmountDraws],
                    dates \in [1..Len(files) -> now..MaxClock] :
                   /\ dates[1] = now
                   /\ \A i \in 1..(Len(files) - 1) : dates[i] <= dates[i + 1]
                   /\ LET created == createdInvoices(files, uuids, rClient, rAmount, dates) IN
                        /\ invoices' = setAll(invoices, created)
                        /\ startTimers' = startTimers \cup {created[i].id : i \in 1..Len(files)}
                        /\ response' = [kind |-> "upload", status |-> 200,
                                        body |-> [success |-> TRUE,
                                                  invoices |-> created,
                                                  message |-> <<"Successfully uploaded", Len(files)>>]]
                   /\ now' = dates[Len(files)]
                   /\ uuids' = uuids + Len(files)
    /\ UNCHANGED <<finishTimers, engine>>

-----------------------------------------------------------------------------
\* GET /api/invoices/:id

\* Mutant of GetInvoice: an unknown id is answered like a server fault
GetInvoice_unknownIdIsAFault(id) ==
    /\ request' = [kind |-> "get", id |-> id]
    /\ LET invoice == get(invoices, id) IN
         response' = IF ~IsSet(invoice)
                     THEN [kind |-> "get", status |-> 500,
                           body |-> [error |-> "Internal server error"]]
                     ELSE [kind |-> "get", status |-> 200, body |-> Val(invoice)]
    /\ UNCHANGED <<invoices, startTimers, finishTimers, uuids, now, engine>>

GetInvoice(id) ==
    /\ request' = [kind |-> "get", id |-> id]
    /\ LET invoice == get(invoices, id) IN
         response' = IF ~IsSet(invoice)
                     THEN [kind |-> "get", status |-> 404,
                           body |-> [error |-> "Invoice not found"]]
                     ELSE [kind |-> "get", status |-> 200, body |-> Val(invoice)]
    /\ UNCHANGED <<invoices, startTimers, finishTimers, uuids, now, engine>>

-----------------------------------------------------------------------------
\* JavaScript primitives the list query relies on

\* String.prototype.toLowerCase, on the ASCII letters
toLowerCase(s) == [i \in 1..Len(s) |-> IF s[i] >= 65 /\ s[i] <= 90 THEN s[i] + 32 ELSE s[i]]

\* String.prototype.includes
includes(s, needle) ==
    \E i \in 0..(Len(s) - Len(needle)) : SubSeq(s, i + 1, i + Len(needle)) = needle

\* s < t for two strings: they agree up to the first code unit that differs,
\* which decides; a proper prefix is the smaller
strLess(s, t) ==
    \E i \in 1..Len(t) :
        /\ Len(s) >= i - 1
        /\ \A j \in 1..(i - 1) : s[j] = t[j]
        /\ (Len(s) = i - 1 \/ s[i] < t[i])

isDigit(c) == c >= 48 /\ c <= 57
isWhiteSpace(c) == c \in {9, 10, 11, 12, 13, 32}

RECURSIVE skipWhiteSpace(_)
skipWhiteSpace(s) ==
    IF s # <<>> /\ isWhiteSpace(Head(s)) THEN skipWhiteSpace(Tail(s)) ELSE s

\* The value of the longest prefix of decimal digits of s, continuing from acc
RECURSIVE digitsValue(_, _)
digitsValue(s, acc) ==
    IF s # <<>> /\ isDigit(Head(s))
    THEN digitsValue(Tail(s), acc * 10 + (Head(s) - 48))
    ELSE acc

\* parseInt(v) without a radix, v a string or undefined: leading white space is
\* skipped, a sign is taken, then the longest prefix of decimal digits; NaN
\* (here <<>>) when there is no digit. undefined is parsed as "undefined": NaN.
\* (The drawn parameters hold no 0x prefix, the one case where the radix is 16.)
parseInt(v) ==
    IF ~IsSet(v) THEN None
    ELSE LET s == skipWhiteSpace(Val(v))
             negative == s # <<>> /\ Head(s) = 45
             signed == s # <<>> /\ Head(s) \in {43, 45}
             body == IF signed THEN Tail(s) ELSE s
         IN IF body = <<>> \/ ~isDigit(Head(body)) THEN None
            ELSE Some(IF negative THEN -digitsValue(body, 0) ELSE digitsValue(body, 0))

\* parseInt(v) || fallback: NaN and 0 are falsy
parseIntOr(v, fallback) ==
    LET n == parseInt(v) IN
      IF IsSet(n) /\ Val(n) # 0 THEN Val(n) ELSE fallback

\* (v as string) || fallback, for a TLA+ string: undefined and "" are falsy
stringOr(v, fallback) ==
    IF IsSet(v) /\ Val(v) # "" THEN Val(v) ELSE fallback

Min(a, b) == IF a < b THEN a ELSE b
Max(a, b) == IF a > b THEN a ELSE b

\* Mutant of slice: a start past the end falls back to the last element
slice_startFallsBackToLast(arr, start, end) ==
    LET len == Len(arr)
        k == IF start < 0 THEN Max(len + start, 0) ELSE Min(start, Max(len - 1, 0))
        final == IF end < 0 THEN Max(len + end, 0) ELSE Min(end, len)
    IN SubSeq(arr, k + 1, final)

\* Array.prototype.slice(start, end): a negative index counts from the end,
\* both are clamped to the array
slice(arr, start, end) ==
    LET len == Len(arr)
        k == IF start < 0 THEN Max(len + start, 0) ELSE Min(start, len)
        final == IF end < 0 THEN Max(len + end, 0) ELSE Min(end, len)
    IN SubSeq(arr, k + 1, final)

-----------------------------------------------------------------------------
\* GET /api/invoices

\* a[sortBy as keyof Invoice], with uploadDate taken through
\* new Date(v).getTime(): a number, a string or undefined. Of the fields of an
\* Invoice the drawn sortBy values name uploadDate, amount, clientName,
\* fileName and fileSize; any other drawn value names no field.
sortValue(invoice, sortBy) ==
    CASE sortBy = "uploadDate" -> [type |-> "number", v |-> invoice.uploadDate]
      [] sortBy = "amount" -> [type |-> "number", v |-> invoice.amount]
      [] sortBy = "fileSize" -> [type |-> "number", v |-> invoice.fileSize]
      [] sortBy = "clientName" -> [type |-> "string", v |-> invoice.clientName]
      [] sortBy = "fileName" -> [type |-> "string", v |-> invoice.fileName]
      [] OTHER -> [type |-> "undefined", v |-> 0]

\* x > y of JavaScript: numbers by value, strings by code units, and false
\* whenever an operand is undefined
greater(x, y) ==
    \/ x.type = "number" /\ y.type = "number" /\ x.v > y.v
    \/ x.type = "string" /\ y.type = "string" /\ strLess(y.v, x.v)

\* Mutant of compare: the direction is not looked at
compare_alwaysAscending(a, b, sortBy, sortOrder) ==
    IF greater(sortValue(a, sortBy), sortValue(b, sortBy)) THEN 1 ELSE -1

\* The comparator handed to sort: it answers 1 or -1, never 0
compare(a, b, sortBy, sortOrder) ==
    LET aValue == sortValue(a, sortBy)
        bValue == sortValue(b, sortBy)
    IN IF sortOrder = "asc"
       THEN (IF greater(aValue, bValue) THEN 1 ELSE -1)
       ELSE (IF greater(bValue, aValue) THEN 1 ELSE -1)

\* Array.prototype.sort(comparefn). The comparator above is not a consistent
\* one (it orders two equal keys both ways), and for such a comparator the
\* order of the result is left to the implementation. The two sorts that node's
\* V8 has shipped for arrays of this size are modelled, each as it runs.

\* V8 before 7.0, arrays of at most 10 elements: insertion sort.
\* for (j = i - 1; j >= 0; j--) { tmp = a[j]; if (comparefn(tmp, element) > 0)
\*   a[j + 1] = tmp; else break; }  a[j + 1] = element;
\* insertBack places element into the sorted prefix, scanning from its end.
RECURSIVE insertBack(_, _, _, _)
insertBack(prefix, element, sortBy, sortOrder) ==
    IF prefix # <<>> /\ compare(prefix[Len(prefix)], element, sortBy, sortOrder) > 0
    THEN Append(insertBack(SubSeq(prefix, 1, Len(prefix) - 1), element, sortBy, sortOrder),
                prefix[Len(prefix)])
    ELSE Append(prefix, element)

RECURSIVE insertionSort(_, _, _, _)
insertionSort(arr, done, sortBy, sortOrder) ==
    IF done >= Len(arr) THEN arr
    ELSE insertionSort(
             insertBack(SubSeq(arr, 1, done), arr[done + 1], sortBy, sortOrder)
                 \o SubSeq(arr, done + 2, Len(arr)),
             done + 1, sortBy, sortOrder)

\* V8 from 7.0 on: TimSort. An array shorter than 64 elements is one run:
\* CountRunAndMakeAscending finds the run the array starts with (reversing it
\* when it descends) and BinaryInsertionSort inserts the rest.

\* Length of the run arr starts with, given that it holds at least 2 elements
RECURSIVE runEnd(_, _, _, _, _)
runEnd(arr, idx, isDescending, sortBy, sortOrder) ==
    IF idx > Len(arr) THEN Len(arr)
    ELSE LET order == compare(arr[idx], arr[idx - 1], sortBy, sortOrder) IN
           IF (isDescending /\ order >= 0) \/ (~isDescending /\ order < 0)
           THEN idx - 1
           ELSE runEnd(arr, idx + 1, isDescending, sortBy, sortOrder)

reverse(arr) == [i \in 1..Len(arr) |-> arr[Len(arr) + 1 - i]]

\* The binary search of BinaryInsertionSort: the place of pivot in arr[left+1..right]
\* (left and right are 0-based bounds, as in the source of V8)
RECURSIVE searchPlace(_, _, _, _, _, _)
searchPlace(arr, pivot, left, right, sortBy, sortOrder) ==
    IF left >= right THEN left
    ELSE LET mid == left + ((right - left) \div 2) IN
           IF compare(pivot, arr[mid + 1], sortBy, sortOrder) < 0
           THEN searchPlace(arr, pivot, left, mid, sortBy, sortOrder)
           ELSE searchPlace(arr, pivot, mid + 1, right, sortBy, sortOrder)

RECURSIVE binaryInsertionSort(_, _, _, _)
binaryInsertionSort(arr, start, sortBy, sortOrder) ==
    IF start >= Len(arr) THEN arr
    ELSE LET pivot == arr[start + 1]
             left == searchPlace(arr, pivot, 0, start, sortBy, sortOrder)
         IN binaryInsertionSort(
                SubSeq(arr, 1, left) \o <<pivot>> \o SubSeq(arr, left + 1, start)
                    \o SubSeq(arr, start + 2, Len(arr)),
                start + 1, sortBy, sortOrder)

timSort(arr, sortBy, sortOrder) ==
    IF Len(arr) < 2 THEN arr
    ELSE LET isDescending == compare(arr[2], arr[1], sortBy, sortOrder) < 0
             run == runEnd(arr, 3, isDescending, sortBy, sortOrder)
             ascending == IF isDescending
                          THEN reverse(SubSeq(arr, 1, run)) \o SubSeq(arr, run + 1, Len(arr))
                          ELSE arr
         IN binaryInsertionSort(ascending, run, sortBy, sortOrder)

\* filteredInvoices.sort((a, b) => ...) on the runtime eng
sort(arr, sortBy, sortOrder, eng) ==
    IF eng = "timsort" THEN timSort(arr, sortBy, sortOrder)
    ELSE insertionSort(arr, 1, sortBy, sortOrder)

\* Mutant of statusFilter: 'all' is matched like any other status
statusFilter_allIsAStatus(arr, status) ==
    IF IsSet(status) /\ Val(status) # ""
    THEN LET keep(invoice) == invoice.status = Val(status) IN SelectSeq(arr, keep)
    ELSE arr

\* The status filter (Array.prototype.filter is SelectSeq): applied when
\* status is truthy and not 'all'
statusFilter(arr, status) ==
    IF IsSet(status) /\ Val(status) # "" /\ Val(status) # "all"
    THEN LET keep(invoice) == invoice.status = Val(status) IN SelectSeq(arr, keep)
    ELSE arr

\* Mutant of searchFilter: the search text is not lowered
searchFilter_caseSensitiveText(arr, search) ==
    IF IsSet(search) /\ Val(search) # <<>>
    THEN LET keep(invoice) == \/ includes(toLowerCase(invoice.fileName), Val(search))
                              \/ includes(toLowerCase(invoice.clientName), Val(search))
         IN SelectSeq(arr, keep)
    ELSE arr

\* The search filter: applied when search is truthy
searchFilter(arr, search) ==
    IF IsSet(search) /\ Val(search) # <<>>
    THEN LET searchLower == toLowerCase(Val(search))
             keep(invoice) == \/ includes(toLowerCase(invoice.fileName), searchLower)
                              \/ includes(toLowerCase(invoice.clientName), searchLower)
         IN SelectSeq(arr, keep)
    ELSE arr

DefaultPage == 1
DefaultLimit == 10

\* Mutant of listResponse: total counts the page, not the filtered records
listResponse_totalOfPage(store, query, eng) ==
    LET page == parseIntOr(query.page, DefaultPage)
        limit == parseIntOr(query.limit, DefaultLimit)
        filteredInvoices ==
            sort(searchFilter(statusFilter(store, query.status), query.search),
                 stringOr(query.sortBy, "uploadDate"), stringOr(query.sortOrder, "desc"), eng)
        paginatedInvoices == slice(filteredInvoices, (page - 1) * limit, (page - 1) * limit + limit)
    IN [data |-> paginatedInvoices,
        total |-> Len(paginatedInvoices),
        page |-> page,
        limit |-> limit]

\* Mutant of listResponse: the page starts one page too far
listResponse_startsAtPageTimesLimit(store, query, eng) ==
    LET page == parseIntOr(query.page, DefaultPage)
        limit == parseIntOr(query.limit, DefaultLimit)
        filteredInvoices ==
            sort(searchFilter(statusFilter(store, query.status), query.search),
                 stringOr(query.sortBy, "uploadDate"), stringOr(query.sortOrder, "desc"), eng)
    IN [data |-> slice(filteredInvoices, page * limit, page * limit + limit),
        total |-> Len(filteredInvoices),
        page |-> page,
        limit |-> limit]

\* The body of the route handler: the InvoiceListResponse for query on store
listResponse(store, query, eng) ==
    LET page == parseIntOr(query.page, DefaultPage)
        limit == parseIntOr(query.limit, DefaultLimit)
        sortBy == stringOr(query.sortBy, "uploadDate")
        sortOrder == stringOr(query.sortOrder, "desc")
        filteredInvoices ==
            sort(searchFilter(statusFilter(store, query.status), query.search),
                 sortBy, sortOrder, eng)
        startIndex == (page - 1) * limit
        endIndex == startIndex + limit
    IN [data |-> slice(filteredInvoices, startIndex, endIndex),
        total |-> Len(filteredInvoices),
        page |-> page,
        limit |-> limit]

ListInvoices(query) ==
    /\ request' = [kind |-> "list", query |-> query]
    /\ response' = [kind |-> "list", status |-> 200,
                    body |-> listResponse(invoices, query, engine)]
    /\ UNCHANGED <<invoices, startTimers, finishTimers, uuids, now, engine>>

-----------------------------------------------------------------------------
\* The list queries the model draws

\* The query string with no parameter at all
noParams ==
    [page |-> None, limit |-> None, sortBy |-> None, sortOrder |-> None,
     status |-> None, search |-> None]

PageParams ==    \* 2 3 0 -1 x 2x
    {None, Some(<<50>>), Some(<<51>>), Some(<<48>>), Some(<<45,49>>), Some(<<120>>), Some(<<50,120>>)}
LimitParams ==   \* 1 2 0 -1 x 2x
    {None, Some(<<49>>), Some(<<50>>), Some(<<48>>), Some(<<45,49>>), Some(<<120>>), Some(<<50,120>>)}
SortByParams ==
    {None, Some("uploadDate"), Some("amount"), Some("clientName"), Some("priority"), Some("fileName")}
SortOrderParams == {None, Some("asc"), Some("desc")}
StatusParams == {None, Some(""), Some("all"), Some("Processing"), Some("Failed"), Some("failed")}
SearchParams == {None, Some(<<>>), Some(<<65,67,77,69>>), Some(<<98,46,112>>), Some(<<122,122>>)} \* "" ACME b.p zz

\* Paging with and without the two filters, sorting with and without paging,
\* and the two filters against each other
PagingQueries ==
    {[noParams EXCEPT !.page = p, !.limit = l, !.status = f[1], !.search = f[2]] :
        p \in PageParams, l \in LimitParams,
        f \in {<<None, None>>, <<Some("Processing"), Some(<<65,67,77,69>>)>>}}

SortQueries ==
    {[noParams EXCEPT !.sortBy = sb, !.sortOrder = so, !.page = p, !.limit = l] :
        sb \in SortByParams, so \in SortOrderParams,
        p \in {None, Some(<<50>>)}, l \in {None, Some(<<49>>)}}

FilterQueries ==
    {[noParams EXCEPT !.status = st, !.search = se] :
        st \in StatusParams, se \in SearchParams}

Queries == PagingQueries \cup SortQueries \cup FilterQueries

\* What the client's App.fetchInvoices sends through api.getInvoices for its
\* first page: page, limit, sortBy and sortOrder always, status unless it is
\* "all", search unless it is empty. The list opens by uploadDate descending;
\* a click on the Amount column asks for amount ascending.
clientQuery(sortBy, sortOrder, status) ==
    [noParams EXCEPT !.page = Some(<<49>>), !.limit = Some(<<49,48>>),
                     !.sortBy = Some(sortBy), !.sortOrder = Some(sortOrder),
                     !.status = status]

ClientQueries ==
    { clientQuery("uploadDate", "desc", None),
      clientQuery("amount", "asc", None) }

-----------------------------------------------------------------------------
\* Specifications

\* Sequences of at most n elements of S
SeqUpTo(S, n) == UNION {[1..k -> S] : k \in 0..n}

Engines == {"insertion", "timsort"}

\* No client is looked at: no poller runs and no due instant is kept
noClient ==
    /\ due = [start |-> 0, finish |-> 0, poll |-> 0]
    /\ poller = [pc |-> "idle", attempts |-> 0, sent |-> 0, seen |-> None]
    /\ app = [invoices |-> <<>>, interval |-> FALSE, inflight |-> {}]

clientIdle == UNCHANGED <<due, poller, app>>

Init ==
    /\ invoices = <<>>
    /\ startTimers = {}
    /\ finishTimers = {}
    /\ uuids = 0
    /\ now = 0
    /\ engine \in Engines
    /\ request = [kind |-> "none"]
    /\ response = [kind |-> "none"]
    /\ noClient

Next ==
    \/ \E files \in SeqUpTo(FileInputs, MaxFiles) : Upload(files) /\ clientIdle
    \/ \E id \in startTimers : StartTimer(id) /\ clientIdle
    \/ \E id \in finishTimers : FinishTimer(id) /\ clientIdle
    \/ Tick /\ clientIdle
    \/ \E id \in 0..uuids : GetInvoice(id) /\ clientIdle
    \/ \E query \in ClientQueries : ListInvoices(query) /\ clientIdle

\* The server: uploads, timer callbacks and reads in any interleaving
Spec == Init /\ [][Next]_vars

\* The query engine on its own: a store the server can have built and a drawn
\* list query that has come in, which the route handler answers.

\* Uploads that got through: the file and the draws of client and amount
SampleUploads == {
    [file |-> [originalname |-> <<65,46,112,100,102>>, mimetype |-> PdfMime, size |-> 1024],
     rClient |-> 0, rAmount |-> 0],     \* A.pdf, Acme Corporation, 100
    [file |-> [originalname |-> <<98,46,80,68,70>>, mimetype |-> PdfMime, size |-> 2048],
     rClient |-> 10, rAmount |-> 4] }   \* b.PDF, TechFlow Solutions, 500

SampleDates == {0, 1}

\* The record of upload u at instant date, brought to status st by the callbacks
sampleInvoice(id, u, date, st) ==
    LET pending == newInvoice(id, u.file, u.rClient, u.rAmount, date, id)
        processing == markProcessing(pending, date)
    IN CASE st = "Pending" -> pending
         [] st = "Processing" -> processing
         [] st = "Processed" -> markCompleted(processing, 0, date)
         [] st = "Failed" -> markCompleted(processing, 80, date)

InitQuery ==
    /\ \E n \in 0..MaxStore :
         \E us \in [1..n -> SampleUploads], ds \in [1..n -> SampleDates], sts \in [1..n -> Statuses] :
           /\ \A i \in 1..(n - 1) : ds[i] <= ds[i + 1]
           /\ invoices = [i \in 1..n |-> sampleInvoice(i, us[i], ds[i], sts[i])]
           /\ startTimers = {i \in 1..n : sts[i] = "Pending"}
           /\ finishTimers = {i \in 1..n : sts[i] = "Processing"}
           /\ uuids = n
           /\ now = IF n = 0 THEN 0 ELSE ds[n]
    /\ engine \in Engines
    /\ \E query \in Queries : request = [kind |-> "list", query |-> query]
    /\ response = [kind |-> "none"]
    /\ noClient

\* The request that came in is answered
NextQuery ==
    /\ request.kind = "list"
    /\ response.kind = "none"
    /\ ListInvoices(request.query)
    /\ clientIdle

QuerySpec == InitQuery /\ [][NextQuery]_vars

\* The server, when every timer that was set fires in the end
FairSpec ==
    /\ Spec
    /\ \A id \in 1..MaxInvoices :
         /\ WF_vars(StartTimer(id) /\ clientIdle)
         /\ WF_vars(FinishTimer(id) /\ clientIdle)

-----------------------------------------------------------------------------
\* The client's per-invoice status poller (FileUpload.pollInvoiceStatus), with
\* the delays of the timers in milliseconds

maxAttempts == 60

startDelay == 1000          \* setTimeout(() => simulateProcessing(invoice.id), 1000)
firstPollDelay == 1000      \* setTimeout(poll, 1000)
pollDelay == 2000           \* setTimeout(poll, 2000)

\* Math.floor(Math.random() * 30000) + 15000
processingTime(r) == ((r * 30000) \div 100) + 15000

ProcessingDraws == {0, 50, 99}

\* Mutant of poll: only Processed ends the polling
poll_failedIsNotFinal(state, reply) ==
    IF reply.status # 200
    THEN [state EXCEPT !.pc = "stopped", !.sent = @ + 1]
    ELSE IF reply.body.status = "Processed" \/ state.attempts >= maxAttempts
    THEN [state EXCEPT !.pc = "stopped", !.sent = @ + 1, !.seen = Some(reply.body.status)]
    ELSE [state EXCEPT !.pc = "scheduled", !.sent = @ + 1, !.seen = Some(reply.body.status),
                       !.attempts = @ + 1]

\* One run of poll, from the request to what its reply leads to. api.getInvoice
\* throws on a reply that is not ok, and the catch ends the polling; otherwise
\* the polling ends on a terminal status or on attempts >= maxAttempts, and
\* goes on with attempts++ and a new timer. sent counts the requests sent and
\* seen is the status the last reply carried.
poll(state, reply) ==
    IF reply.status # 200
    THEN [state EXCEPT !.pc = "stopped", !.sent = @ + 1]
    ELSE IF reply.body.status = "Processed" \/ reply.body.status = "Failed"
            \/ state.attempts >= maxAttempts
    THEN [state EXCEPT !.pc = "stopped", !.sent = @ + 1, !.seen = Some(reply.body.status)]
    ELSE [state EXCEPT !.pc = "scheduled", !.sent = @ + 1, !.seen = Some(reply.body.status),
                       !.attempts = @ + 1]

\* The invoice the poller of the model follows
PolledId == 1

\* The poller's timer fires: the request is sent, the server answers it and
\* the reply is handled
PollFires ==
    /\ poller.pc = "scheduled"
    /\ due.poll <= now
    /\ GetInvoice(PolledId)
    /\ poller' = poll(poller, response')
    /\ due' = [due EXCEPT !.poll = now + pollDelay]
    /\ UNCHANGED app

\* The timer of the upload handler fires when it is due, and simulateProcessing
\* sets the completion timer
StartFires ==
    /\ due.start <= now
    /\ StartTimer(PolledId)
    /\ \E r \in ProcessingDraws : due' = [due EXCEPT !.finish = now + processingTime(r)]
    /\ UNCHANGED <<poller, app>>

\* The completion timer fires when it is due
FinishFires ==
    /\ due.finish <= now
    /\ FinishTimer(PolledId)
    /\ UNCHANGED <<due, poller, app>>

\* The instants the pending timers are due at
pendingDue ==
    (IF PolledId \in startTimers THEN {due.start} ELSE {})
        \cup (IF PolledId \in finishTimers THEN {due.finish} ELSE {})
        \cup (IF poller.pc = "scheduled" THEN {due.poll} ELSE {})

\* Time passes up to the instant the next timer is due at: a timer fires no
\* earlier than it is due, and a due timer fires before time goes on
Elapse ==
    /\ pendingDue # {}
    /\ \A t \in pendingDue : now < t
    /\ now' = CHOOSE t \in pendingDue : \A u \in pendingDue : t <= u
    /\ noExchange
    /\ UNCHANGED <<invoices, startTimers, finishTimers, uuids, engine, due, poller, app>>

\* The upload of one file has been answered and the client has called
\* pollInvoiceStatus for its invoice, at the earliest at the instant of the upload
InitPoll ==
    /\ \E u \in SampleUploads : invoices = <<sampleInvoice(PolledId, u, 0, "Pending")>>
    /\ startTimers = {PolledId}
    /\ finishTimers = {}
    /\ uuids = 1
    /\ now = 0
    /\ engine \in Engines
    /\ request = [kind |-> "none"]
    /\ response = [kind |-> "none"]
    /\ due = [start |-> startDelay, finish |-> 0, poll |-> firstPollDelay]
    /\ poller = [pc |-> "scheduled", attempts |-> 0, sent |-> 0, seen |-> None]
    /\ app = [invoices |-> <<>>, interval |-> FALSE, inflight |-> {}]

NextPoll ==
    \/ StartFires
    \/ FinishFires
    \/ PollFires
    \/ Elapse

\* One invoice, its two timers and its poller, in time
PollSpec == InitPoll /\ [][NextPoll]_vars

-----------------------------------------------------------------------------
\* The client's App: the list it shows and its auto-refresh effect

\* invoices.some(invoice => invoice.status === "Pending" || invoice.status === "Processing")
hasProcessingInvoices(list) ==
    \E k \in 1..Len(list) : list[k].status = "Pending" \/ list[k].status = "Processing"

\* Mutant of autoRefresh: the effect returns no cleanup, an interval once set stays
autoRefresh_noCleanup(interval, list) == interval \/ hasProcessingInvoices(list)

\* The auto-refresh effect, run when the list has changed. The cleanup of its
\* last run clears the interval that run had set, then an interval is set when
\* the list holds a Pending or Processing invoice. The result tells whether an
\* interval is set afterwards.
autoRefresh(interval, list) == hasProcessingInvoices(list)

\* fetchInvoices up to its await: the request is sent and the server answers;
\* the reply is on its way
fetchInvoices(query) ==
    /\ Cardinality(app.inflight) < MaxInFlight
    /\ ListInvoices(query)
    /\ app' = [app EXCEPT !.inflight = @ \cup {response'.body}]
    /\ UNCHANGED <<due, poller>>

\* fetchInvoices is called by the effect that follows a change of page, sort
\* or filter (and the mount), and by handleUploadSuccess
AppFetches == \E query \in ClientQueries : fetchInvoices(query)

\* The interval of the auto-refresh effect fires
IntervalFires ==
    /\ app.interval
    /\ \E query \in ClientQueries : fetchInvoices(query)

\* A reply arrives (replies of different fetches in any order): the rest of
\* fetchInvoices, setInvoices(response.data), and the effect that follows it
ReplyArrives ==
    \E reply \in app.inflight :
        /\ app' = [invoices |-> reply.data,
                   interval |-> autoRefresh(app.interval, reply.data),
                   inflight |-> app.inflight \ {reply}]
        /\ noExchange
        /\ UNCHANGED <<invoices, startTimers, finishTimers, uuids, now, engine, due, poller>>

\* The files the client's upload form sends
ClientUploads == {<<f>> : f \in {g \in FileInputs : g.mimetype = PdfMime /\ g.size <= fileSizeLimit}}

NextApp ==
    \/ \E files \in ClientUploads : Upload(files) /\ clientIdle
    \/ \E id \in startTimers : StartTimer(id) /\ clientIdle
    \/ \E id \in finishTimers : FinishTimer(id) /\ clientIdle
    \/ AppFetches
    \/ IntervalFires
    \/ ReplyArrives

\* The server with the App of one client in front of it
AppSpec == Init /\ [][NextApp]_vars

-----------------------------------------------------------------------------
\* Properties of the invoice lifecycle

Started == {"Processing", "Processed", "Failed"}

allowedStep(old, new) ==
    \/ old = new
    \/ old = "Pending" /\ new = "Processing"
    \/ old = "Processing" /\ new \in Terminal

\* C1: in every step (upload, Start callback, Finish callback, read) each
\* invoice keeps its status or moves Pending -> Processing or Processing ->
\* Processed / Failed: never from Pending to a terminal status, never out of a
\* terminal status, never back to Pending.
C1_StatusMovesForward ==
    [][\A i \in 1..Len(invoices) :
          LET after == get(invoices', invoices[i].id) IN
            IsSet(after) /\ allowedStep(invoices[i].status, Val(after).status)]_vars

\* One invoice went all the way to Processed and another to Failed
C1_Witness ==
    \E i, j \in 1..Len(invoices) :
        invoices[i].status = "Processed" /\ invoices[j].status = "Failed"

startTimeConsistent(invoice) ==
    IsSet(invoice.processingStartTime) <=> invoice.status \in Started

\* C2: in the store, and in every record a list or get-by-id read returns,
\* processingStartTime is set exactly when the status is Processing, Processed
\* or Failed.
C2_StartTimeIffStarted ==
    /\ \A i \in 1..Len(invoices) : startTimeConsistent(invoices[i])
    /\ (response.kind = "get" /\ response.status = 200)
          => startTimeConsistent(response.body)
    /\ response.kind = "list"
          => \A k \in 1..Len(response.body.data) : startTimeConsistent(response.body.data[k])

\* A list read between the two callbacks returns a Processing record, its start time set
C2_Witness ==
    /\ response.kind = "list"
    /\ \E k \in 1..Len(response.body.data) :
          /\ response.body.data[k].status = "Processing"
          /\ IsSet(response.body.data[k].processingStartTime)

\* C3: in the store processingEndTime is set exactly on the records whose
\* status is Processed or Failed.
C3_EndTimeIffTerminal ==
    \A i \in 1..Len(invoices) :
        IsSet(invoices[i].processingEndTime) <=> invoices[i].status \in Terminal

\* A Failed record with its end time next to a record that has none yet
C3_Witness ==
    \E i, j \in 1..Len(invoices) :
        /\ invoices[i].status = "Failed" /\ IsSet(invoices[i].processingEndTime)
        /\ invoices[j].status = "Processing" /\ ~IsSet(invoices[j].processingEndTime)

inStore(id) == IsSet(get(invoices, id))
isTerminal(id) == inStore(id) /\ Val(get(invoices, id)).status \in Terminal

\* C4: when every timer that was set fires in the end, every invoice an upload
\* created reaches Processed or Failed in the end and keeps that status for ever.
C4_EveryInvoiceCompletes ==
    \A id \in 1..MaxInvoices : inStore(id) ~> [] isTerminal(id)

\* Every invoice of a two-file upload has completed and no timer is left
C4_Witness ==
    /\ Len(invoices) >= 2
    /\ \A i \in 1..Len(invoices) : invoices[i].status \in Terminal
    /\ invoices[1].uploadDate = invoices[2].uploadDate
    /\ startTimers = {} /\ finishTimers = {}

-----------------------------------------------------------------------------
\* Properties of the list query

listed == response.kind = "list"

\* The response is the first page and a page has room for every record of
\* the store: data is the whole sequence that was paginated
wholeResult == response.body.page = 1 /\ response.body.limit >= Len(invoices)

\* A status filter was asked for
statusGiven(query) == IsSet(query.status) /\ Val(query.status) \notin {"", "all"}

\* A search text was asked for
searchGiven(query) == IsSet(query.search) /\ Val(query.search) # <<>>

\* Letters that differ in case only are the same
foldCase(c) == IF c >= 97 /\ c <= 122 THEN c - 32 ELSE c

containsIgnoringCase(text, part) ==
    \E off \in 0..(Len(text) - Len(part)) :
        \A k \in 1..Len(part) : foldCase(text[off + k]) = foldCase(part[k])

matchesSearch(invoice, text) ==
    \/ containsIgnoringCase(invoice.fileName, text)
    \/ containsIgnoringCase(invoice.clientName, text)

passesFilters(invoice, query) ==
    /\ statusGiven(query) => invoice.status = Val(query.status)
    /\ searchGiven(query) => matchesSearch(invoice, Val(query.search))

\* Positions in the store of the records that pass the filters of query
passing(query) == {i \in 1..Len(invoices) : passesFilters(invoices[i], query)}

\* Place of a returned record in the store (its insertion order)
storePlace(invoice) == CHOOSE i \in 1..Len(invoices) : invoices[i].id = invoice.id

dataIds(body) == {body.data[k].id : k \in 1..Len(body.data)}

\* C5: the total of a list response is the number of records that pass the
\* status filter and the text filter; the count reads neither page nor limit,
\* so the total is the same for every page and limit.
C5_TotalCountsFiltered ==
    listed => response.body.total = Cardinality(passing(request.query))

\* Two records pass a status filter and the page holds one of them
C5_Witness ==
    /\ listed
    /\ statusGiven(request.query)
    /\ response.body.total = 2
    /\ Len(response.body.data) = 1

\* C6: a page beyond the last one (page >= 1, limit >= 1, (page - 1) * limit
\* at or past the number of records passing the filters) is answered normally,
\* with empty data and the total of the records passing the filters.
C6_PagePastTheEnd ==
    (/\ listed
     /\ response.body.page >= 1
     /\ response.body.limit >= 1
     /\ (response.body.page - 1) * response.body.limit >= Cardinality(passing(request.query)))
    => /\ response.status = 200
       /\ response.body.data = <<>>
       /\ response.body.total = Cardinality(passing(request.query))

\* Page 3 of one record each when two records exist
C6_Witness ==
    /\ listed
    /\ response.body.page = 3
    /\ response.body.limit = 1
    /\ response.body.total = 2
    /\ response.body.data = <<>>

\* The sort key and the direction a query asks for, uploadDate descending
\* when it names none
askedSortBy(query) == IF IsSet(query.sortBy) THEN Val(query.sortBy) ELSE "uploadDate"
askedSortOrder(query) == IF IsSet(query.sortOrder) THEN Val(query.sortOrder) ELSE "desc"

\* C7 (as claimed): sorting by amount is stable. Records with equal amounts
\* come out in their store order, ascending and descending, and when all
\* amounts differ the descending result is the ascending one reversed.
C7_SortByAmountIsStable ==
    (/\ listed
     /\ wholeResult
     /\ askedSortBy(request.query) = "amount")
    => LET data == response.body.data
           asc == listResponse(invoices, [request.query EXCEPT !.sortOrder = Some("asc")], engine).data
           desc == listResponse(invoices, [request.query EXCEPT !.sortOrder = Some("desc")], engine).data
       IN /\ \A i, j \in 1..Len(data) :
                (i < j /\ data[i].amount = data[j].amount)
                    => storePlace(data[i]) < storePlace(data[j])
          /\ (\A i, j \in 1..Len(asc) : i # j => asc[i].amount # asc[j].amount)
                => desc = reverse(asc)

keyOf(invoice, field) ==
    CASE field = "uploadDate" -> invoice.uploadDate
      [] field = "amount" -> invoice.amount
      [] field = "clientName" -> invoice.clientName

\* k1 comes no later than k2: instants and amounts as numbers, names as strings
keyAtMost(k1, k2, field) ==
    IF field = "clientName" THEN k1 = k2 \/ strLess(k1, k2) ELSE k1 <= k2

\* C8: for sortBy uploadDate, amount or clientName (uploadDate when absent)
\* every adjacent pair of the returned records is in non-decreasing key order
\* when sortOrder is asc and in non-increasing key order otherwise (desc when
\* absent), and the sequence that is paginated is a permutation of the
\* filtered records: returned whole, it holds each of them once.
C8_SortedPermutation ==
    (listed /\ askedSortBy(request.query) \in {"uploadDate", "amount", "clientName"})
    => LET data == response.body.data
           field == askedSortBy(request.query)
       IN /\ \A k \in 1..(Len(data) - 1) :
                IF askedSortOrder(request.query) = "asc"
                THEN keyAtMost(keyOf(data[k], field), keyOf(data[k + 1], field), field)
                ELSE keyAtMost(keyOf(data[k + 1], field), keyOf(data[k], field), field)
          /\ wholeResult
                => /\ Len(data) = Cardinality(passing(request.query))
                   /\ \A i \in passing(request.query) :
                         \E k \in 1..Len(data) : data[k] = invoices[i]

\* Two records come back by client name ascending, the later upload first
C8_Witness ==
    /\ listed
    /\ request.query.sortBy = Some("clientName")
    /\ request.query.sortOrder = Some("asc")
    /\ Len(response.body.data) = 2
    /\ strLess(response.body.data[1].clientName, response.body.data[2].clientName)
    /\ response.body.data[1].id > response.body.data[2].id

\* The response to the request with its status parameter taken away
withoutStatus == listResponse(invoices, [request.query EXCEPT !.status = None], engine)

\* What a status filter for value must return
onlyStatus(value) ==
    /\ \A k \in 1..Len(response.body.data) : response.body.data[k].status = value
    /\ response.body.total =
          Cardinality({i \in 1..Len(invoices) :
                          /\ invoices[i].status = value
                          /\ searchGiven(request.query)
                                => matchesSearch(invoices[i], Val(request.query.search))})

\* C9 (as claimed): status absent or "all" gives the data and total of the
\* query without a status filter; any other status value gives only the
\* records whose status is exactly that value.
C9_StatusAllOrAbsent ==
    listed =>
        IF ~IsSet(request.query.status) \/ Val(request.query.status) = "all"
        THEN response.body = withoutStatus
        ELSE onlyStatus(Val(request.query.status))

\* C9 (amended): status absent, empty or "all" gives the data and total of
\* the query without a status filter; any other status value gives only the
\* records whose status is exactly that value.
C9_StatusAllEmptyOrAbsent ==
    listed =>
        IF ~IsSet(request.query.status) \/ Val(request.query.status) \in {"", "all"}
        THEN response.body = withoutStatus
        ELSE onlyStatus(Val(request.query.status))

\* Of two records the status filter keeps the Failed one
C9_Witness ==
    /\ listed
    /\ request.query.status = Some("Failed")
    /\ Len(invoices) = 2
    /\ response.body.total = 1
    /\ Len(response.body.data) = 1

\* The response to the request with its search parameter taken away
withoutSearch == listResponse(invoices, [request.query EXCEPT !.search = None], engine)

\* C10: a non-empty search text keeps exactly the records whose fileName or
\* clientName contains it, letter case ignored (among those the status filter
\* keeps); an empty or absent search text gives the result of the query
\* without a search filter.
C10_SearchIgnoresCase ==
    listed =>
        IF searchGiven(request.query)
        THEN /\ \A k \in 1..Len(response.body.data) :
                   matchesSearch(response.body.data[k], Val(request.query.search))
             /\ wholeResult =>
                   dataIds(response.body) = {invoices[i].id : i \in passing(request.query)}
        ELSE response.body = withoutSearch

\* The text ACME keeps the Acme Corporation record of two and drops the other
C10_Witness ==
    /\ listed
    /\ request.query.search = Some(<<65,67,77,69>>)
    /\ Len(invoices) = 2
    /\ dataIds(response.body) = {2}

-----------------------------------------------------------------------------
\* Properties of the upload handler and of the store

\* A request validation turns down: no file at all, a file that is not a PDF,
\* or a file over 10MB
rejectedByValidation(files) ==
    \/ Len(files) = 0
    \/ \E i \in 1..Len(files) :
          files[i].mimetype # "application/pdf" \/ files[i].size > 10 * 1024 * 1024

\* C11: an upload request that validation turns down is answered 400 with an
\* {error: message} body, and the store and the set of pending Start timers
\* are after it what they were before it.
C11_RejectedUploadChangesNothing ==
    [][\A files \in SeqUpTo(FileInputs, MaxFiles) :
          (rejectedByValidation(files) /\ Upload(files))
          => /\ response'.status = 400
             /\ DOMAIN response'.body = {"error"}
             /\ invoices' = invoices
             /\ startTimers' = startTimers
             /\ finishTimers' = finishTimers]_vars

\* A rejected upload was answered while the store held a record waiting for
\* its Start callback
C11_Witness ==
    /\ response.kind = "upload"
    /\ response.status = 400
    /\ response.body.error = "Only PDF files are allowed"
    /\ Len(invoices) = 1
    /\ startTimers = {1}

\* The step is an upload that was accepted
acceptedUploadStep == request'.kind = "upload" /\ response'.status = 200

\* C12: after every step the records of the store have pairwise distinct ids,
\* every record that was in the store is still there under its id, and the
\* number of records has grown by the number of files of the step's upload
\* when that upload was accepted and not at all otherwise: it is the number of
\* files accepted so far.
C12_StoreOnlyGrows ==
    [][/\ \A i, j \in 1..Len(invoices') : i # j => invoices'[i].id # invoices'[j].id
       /\ Len(invoices') >= Len(invoices)
       /\ \A i \in 1..Len(invoices) : invoices'[i].id = invoices[i].id
       /\ \A files \in SeqUpTo(FileInputs, MaxFiles) :
             (~rejectedByValidation(files) /\ Upload(files))
             => Len(invoices') = Len(invoices) + Len(files)
       /\ ~acceptedUploadStep => Len(invoices') = Len(invoices)
       /\ Len(invoices') = uuids']_vars

\* Two one-file uploads were accepted, the first record has completed and
\* the second one is still Pending
C12_Witness ==
    /\ Len(invoices) = 2
    /\ invoices[1].status \in Terminal
    /\ invoices[2].status = "Pending"
    /\ invoices[1].id # invoices[2].id
    /\ uuids = 2

\* The part of a record that creation fixes
createdPart(invoice) ==
    [id |-> invoice.id, uploadDate |-> invoice.uploadDate,
     fileName |-> invoice.fileName, fileSize |-> invoice.fileSize,
     clientName |-> invoice.clientName, amount |-> invoice.amount,
     filePath |-> invoice.filePath]

\* The part of a record that the Status Simulator writes
simulatedPart(invoice) ==
    [status |-> invoice.status,
     processingStartTime |-> invoice.processingStartTime,
     processingEndTime |-> invoice.processingEndTime]

\* C13: in every step (Start, Finish, list, get-by-id, upload) each record of
\* the store keeps its id, uploadDate, fileName, fileSize, clientName, amount
\* and filePath, and a step that changes the status or a processing timestamp
\* of a record is the Start or the Finish callback of that record.
C13_CreatedFieldsNeverChange ==
    [][\A i \in 1..Len(invoices) :
          LET after == get(invoices', invoices[i].id) IN
            /\ IsSet(after)
            /\ createdPart(Val(after)) = createdPart(invoices[i])
            /\ simulatedPart(Val(after)) # simulatedPart(invoices[i])
                  => StartTimer(invoices[i].id) \/ FinishTimer(invoices[i].id)]_vars

\* A get-by-id read returns a completed record, uploaded at instant 0 and
\* started at instant 1, after a later upload added a second record
C13_Witness ==
    /\ response.kind = "get"
    /\ response.status = 200
    /\ response.body.status \in Terminal
    /\ response.body.uploadDate = 0
    /\ response.body.processingStartTime = Some(1)
    /\ Len(invoices) = 2
    /\ response.body = invoices[1]

\* C14: the Finish callback of a record, whichever outcome it draws, leaves
\* the record with status Processed or Failed and with processingEndTime set
\* (to the instant of the callback), and with the processingStartTime that
\* Start had set; so a record that ends Failed has its end time set and its
\* start time unchanged.
C14_FinishKeepsStartTime ==
    [][\A id \in 1..MaxInvoices :
          (FinishTimer(id) /\ inStore(id))
          => LET before == Val(get(invoices, id))
                 after == Val(get(invoices', id))
             IN /\ after.status \in Terminal
                /\ after.processingEndTime = Some(now')
                /\ IsSet(before.processingStartTime)
                /\ after.processingStartTime = before.processingStartTime]_vars

\* A record started at instant 0 has ended Failed at instant 1
C14_Witness ==
    \E i \in 1..Len(invoices) :
        /\ invoices[i].status = "Failed"
        /\ invoices[i].processingStartTime = Some(0)
        /\ invoices[i].processingEndTime = Some(1)

\* C17: a get-by-id read of an id that is in the store is answered 200 with
\* the stored record, and a read of an id that is not in the store is answered
\* 404 with an {error} body (not 500); every id a successful upload has handed
\* out is in the store, so a read of it returns its record.
C17_GetReturnsRecordOrNotFound ==
    /\ \A id \in 1..uuids : \E i \in 1..Len(invoices) : invoices[i].id = id
    /\ response.kind = "get" =>
          IF \E i \in 1..Len(invoices) : invoices[i].id = request.id
          THEN /\ response.status = 200
               /\ \E i \in 1..Len(invoices) : response.body = invoices[i]
               /\ response.body.id = request.id
          ELSE /\ response.status = 404
               /\ DOMAIN response.body = {"error"}

\* An id no upload handed out was asked for while the store held two records
C17_Witness ==
    /\ response.kind = "get"
    /\ response.status = 404
    /\ request.id = 0
    /\ Len(invoices) = 2

\* The status of the record stored under id
statusOf(id) == Val(get(invoices, id)).status

\* C20: the Start callback of a record runs on the Pending record and leaves
\* no Start timer for it, the Finish callback runs on the Processing record
\* and leaves no timer for it, so each runs at most once per record; a Finish
\* timer is set only by the Start callback of its record; and a Start timer is
\* set only by the upload that creates its record, one for each record created.
C20_OneStartOneFinish ==
    [][/\ \A id \in 1..MaxInvoices :
             /\ (StartTimer(id) /\ inStore(id))
                   => statusOf(id) = "Pending" /\ id \notin startTimers'
             /\ (FinishTimer(id) /\ inStore(id))
                   => /\ statusOf(id) = "Processing"
                      /\ id \notin startTimers' /\ id \notin finishTimers'
             /\ id \in finishTimers' \ finishTimers => StartTimer(id)
             /\ id \in startTimers' \ startTimers => ~inStore(id)
       /\ startTimers' \ startTimers =
             {invoices'[i].id : i \in (Len(invoices) + 1)..Len(invoices')}]_vars

\* Of the two records of one upload the first has been started and finished
\* and the second has been started: one Finish timer is left
C20_Witness ==
    /\ Len(invoices) = 2
    /\ invoices[1].uploadDate = invoices[2].uploadDate
    /\ invoices[1].status \in Terminal
    /\ invoices[2].status = "Processing"
    /\ startTimers = {}
    /\ finishTimers = {invoices[2].id}

\* The step is a timer callback of the invoice id
callbackOf(id) == StartTimer(id) \/ FinishTimer(id)

\* C23: a Start or Finish callback of an invoice leaves every other record as
\* it was and adds or removes no record; it takes its own record from Pending
\* to Processing (Start) or from Processing to Processed or Failed (Finish),
\* whatever has happened to the other records; and every other step (a
\* callback of another invoice, an upload, a read, time passing) leaves the
\* record and its pending timers as they were. So the statuses an invoice
\* goes through are the same in every interleaving.
C23_CallbacksAreIndependent ==
    [][\A i \in 1..Len(invoices) :
          LET id == invoices[i].id IN
            IF callbackOf(id)
            THEN /\ Len(invoices') = Len(invoices)
                 /\ \A j \in 1..Len(invoices) : j # i => invoices'[j] = invoices[j]
                 /\ StartTimer(id) =>
                       invoices[i].status = "Pending" /\ invoices'[i].status = "Processing"
                 /\ FinishTimer(id) =>
                       invoices[i].status = "Processing" /\ invoices'[i].status \in Terminal
            ELSE /\ Len(invoices') >= Len(invoices)
                 /\ invoices'[i] = invoices[i]
                 /\ id \in startTimers' <=> id \in startTimers
                 /\ id \in finishTimers' <=> id \in finishTimers]_vars

\* The second invoice has completed while the first, uploaded before it, is
\* still waiting for its Start callback
C23_Witness ==
    /\ Len(invoices) = 2
    /\ invoices[1].status = "Pending"
    /\ invoices[2].status \in Terminal
    /\ startTimers = {invoices[1].id}

-----------------------------------------------------------------------------
\* Properties of the client

showsNonTerminal(list) ==
    \E k \in 1..Len(list) : list[k].status \notin {"Processed", "Failed"}

\* C19: after every step the periodic refresh is set exactly when the list
\* the App shows holds an invoice that is not yet Processed or Failed (so the
\* reply that brings a list of terminal invoices only cancels it), and a
\* periodic fetch is issued only while the shown list holds such an invoice.
C19_RefreshWhileNonTerminal ==
    [][/\ app'.interval <=> showsNonTerminal(app'.invoices)
       /\ IntervalFires => showsNonTerminal(app.invoices)]_vars

\* The refresh was set for a list of two invoices and has been cancelled by
\* the reply that showed both of them terminal
C19_Witness ==
    /\ Len(app.invoices) = 2
    /\ \A k \in 1..2 : app.invoices[k].status \in Terminal
    /\ ~app.interval
    /\ app.inflight # {}

-----------------------------------------------------------------------------
\* Properties of the list query's parameters

\* The text is a decimal numeral: an optional sign, then digits only
isNumeral(text) ==
    LET digits == IF text # <<>> /\ text[1] \in {43, 45} THEN Tail(text) ELSE text
    IN digits # <<>> /\ \A k \in 1..Len(digits) : digits[k] >= 48 /\ digits[k] <= 57

\* The parameter is absent or its text is not a number
absentOrNonNumeric(param) == ~IsSet(param) \/ ~isNumeral(Val(param))

\* The sequence the handler paginates, for the request that was answered
paginated ==
    sort(searchFilter(statusFilter(invoices, request.query.status), request.query.search),
         stringOr(request.query.sortBy, "uploadDate"),
         stringOr(request.query.sortOrder, "desc"), engine)

\* C15 (as claimed): page is 1 whenever the page parameter is absent or
\* non-numeric, limit is 10 whenever the limit parameter is absent or
\* non-numeric, and the page and limit of the response are the ones the data
\* was cut with.
C15_DefaultsWhenNotNumeric ==
    listed =>
        /\ absentOrNonNumeric(request.query.page) => response.body.page = 1
        /\ absentOrNonNumeric(request.query.limit) => response.body.limit = 10
        /\ response.body.data =
              slice(paginated, (response.body.page - 1) * response.body.limit,
                    (response.body.page - 1) * response.body.limit + response.body.limit)

\* C16 (as claimed): a list query whose sortBy is none of uploadDate, amount
\* and clientName is answered without an error, and the records that pass the
\* filters come back in their store order, whichever sortOrder is asked for.
C16_UnknownSortByKeepsStoreOrder ==
    (listed /\ askedSortBy(request.query) \notin {"uploadDate", "amount", "clientName"})
    => /\ response.status = 200
       /\ \A i, j \in 1..Len(response.body.data) :
             i < j => storePlace(response.body.data[i]) < storePlace(response.body.data[j])

-----------------------------------------------------------------------------
\* Properties of the pagination

\* The data of the request's query asked without page and limit: with the
\* default limit of 10 the first page holds every record of the drawn stores
onOnePage ==
    listResponse(invoices, [request.query EXCEPT !.page = None, !.limit = None], engine).data

\* The data of page n (a one-digit n) of the request's query, its other
\* parameters kept
pageData(n) ==
    listResponse(invoices, [request.query EXCEPT !.page = Some(<<48 + n>>)], engine).data

\* The data of pages 1 to n, one after the other
RECURSIVE pagesUpTo(_)
pagesUpTo(n) == IF n = 0 THEN <<>> ELSE pagesUpTo(n - 1) \o pageData(n)

\* C21: for page >= 1 and limit >= 1 the data is the part of the filtered and
\* sorted sequence from position (page - 1) * limit up to, not including,
\* (page - 1) * limit + limit, cut at its end: it has
\* min(limit, max(0, total - (page - 1) * limit)) records; the sequence that is
\* cut holds exactly the records that pass the filters; and the data of pages
\* 1, 2, ... for the same limit, one after the other, is that whole sequence
\* (the pages are asked for once per query, when the request names no page).
C21_PageIsASliceOfTheSortedSequence ==
    (listed /\ response.body.page >= 1 /\ response.body.limit >= 1)
    => LET data == response.body.data
           total == response.body.total
           first == (response.body.page - 1) * response.body.limit
           sorted == onOnePage
       IN /\ total = Len(sorted)
          /\ total = Cardinality(passing(request.query))
          /\ \A k \in 1..total : passesFilters(sorted[k], request.query)
          /\ Len(data) = (IF total - first <= 0 THEN 0
                          ELSE IF total - first < response.body.limit THEN total - first
                          ELSE response.body.limit)
          /\ \A k \in 1..Len(data) : data[k] = sorted[first + k]
          /\ ~IsSet(request.query.page) => pagesUpTo(total + 1) = sorted

\* Page 2 of one record each: the second of two records that come back in
\* the order opposite to the store's
C21_Witness ==
    /\ listed
    /\ request.query.page = Some(<<50>>)
    /\ request.query.limit = Some(<<49>>)
    /\ response.body.total = 2
    /\ Len(response.body.data) = 1
    /\ response.body.data[1] = invoices[1]

\* C22 (as claimed): whatever the page and limit parameters carry, the page
\* and the limit of the response are both at least 1, the first position
\* (page - 1) * limit is not negative, and the data holds only records from
\* the positions first up to, not including, first + limit of the filtered
\* and sorted sequence.
C22_PageAndLimitAtLeastOne ==
    listed =>
        LET data == response.body.data
            first == (response.body.page - 1) * response.body.limit
        IN /\ response.body.page >= 1
           /\ response.body.limit >= 1
           /\ first >= 0
           /\ Len(data) <= response.body.limit
           /\ \A k \in 1..Len(data) :
                 first + k <= Len(onOnePage) /\ data[k] = onOnePage[first + k]

====
